---- MODULE Spec2Model ----
(***************************************************************************)
(* A model of pfennigfuchs (src/pffuchs.py): PrioFuncHeap,                 *)
(* calculate_balances and resolve_transfers.                               *)
(*                                                                         *)
(* Currency values (Decimal with two fractional digits) are integers       *)
(* counted in cents.  A person (a string) is a natural number; the order   *)
(* of the numbers stands for the order of the strings.  A dict is the      *)
(* sequence of its <<key, value>> pairs in insertion order, which is the   *)
(* order in which .items() enumerates it.                                  *)
(***************************************************************************)
EXTENDS Integers, Sequences, FiniteSets, TLC

VARIABLES
    pc,                 \* where the program is: "calc", "resolve", "loop",
                        \* "done", "heap", or the exception that ended it
    rec,                \* calculate_balances: the record of the last iteration
    slots,              \* the participant slots of the records read so far
    balances,           \* the {person: balance} dict
    credit_heap,        \* credit_heap.data
    debt_heap,          \* debt_heap.data
    transactions,       \* the list of emitted transactions
    unbalanced_debt,    \* list(debt_heap) at the end
    unbalanced_credit,  \* list(credit_heap) at the end
    heap_data,          \* SpecHeap: the data of a PrioFuncHeap used on its own
    heap_init,          \* SpecHeap: the number of items it was built from
    heap_log,           \* SpecHeap: the calls made on it, in order
    heap_ret            \* SpecHeap: what the last call returned

heap_vars == <<heap_data, heap_init, heap_log, heap_ret>>

vars == <<pc, rec, slots, balances, credit_heap, debt_heap, transactions,
          unbalanced_debt, unbalanced_credit, heap_vars>>

----------------------------------------------------------------------------
(* Bounds of the model *)

\* Spec: people of a balance map handed to resolve_transfers
NumPeople == 3
\* Spec: largest magnitude, in cents, of a balance handed to resolve_transfers
MaxBal == 3
\* SpecZeroSum: people of a balance map, and the largest magnitude of a balance
NumPeopleZeroSum == 5
MaxBalZeroSum == 4
\* SpecRecords: people named in the records, the largest amount of a record in
\* cents, and the participant slots (1 + len(debtors) a record) of all records
NumPeopleRecords == 3
MaxAmount == 6
MaxSlots == 4
\* SpecInput: the participant slots of all records
MaxSlotsInput == 3
\* SpecHeap: the items a PrioFuncHeap is built from, the calls made on it, and
\* the largest amount of an item
MaxHeapInit == 3
MaxHeapCalls == 3
MaxHeapAmount == 2

People == 1..NumPeople

----------------------------------------------------------------------------
(* Python's comparison of tuples, as heapq applies it to the heap entries  *)
(* (prio, (amount, person)): the first differing component decides.        *)

ItemLt(a, b) ==
    \/ a[1] < b[1]
    \/ a[1] = b[1] /\ a[2] < b[2]

\* a slip: entries compared by priority alone, ties left to the heap's layout
EntryLt_prio_only(a, b) == a[1] < b[1]

EntryLt(a, b) ==
    \/ a[1] < b[1]
    \/ a[1] = b[1] /\ ItemLt(a[2], b[2])

----------------------------------------------------------------------------
(* heapq, on a list held as a sequence: position p here is index p-1 of    *)
(* the list, so the parent of p is p \div 2 and its children 2p and 2p+1.  *)

RECURSIVE siftdown_loop(_, _, _, _)
siftdown_loop(heap, startpos, pos, newitem) ==
    IF pos > startpos /\ EntryLt(newitem, heap[pos \div 2])
    THEN siftdown_loop([heap EXCEPT ![pos] = heap[pos \div 2]],
                       startpos, pos \div 2, newitem)
    ELSE [heap EXCEPT ![pos] = newitem]

siftdown(heap, startpos, pos) == siftdown_loop(heap, startpos, pos, heap[pos])

\* a slip: the left child is taken without a look at the right one
smaller_child_left(heap, pos) == 2 * pos

\* the smaller child of pos: the right one unless the left one is smaller
smaller_child(heap, pos) ==
    IF 2 * pos + 1 <= Len(heap) /\ ~EntryLt(heap[2 * pos], heap[2 * pos + 1])
    THEN 2 * pos + 1
    ELSE 2 * pos

RECURSIVE siftup_loop(_, _, _, _)
siftup_loop(heap, startpos, pos, newitem) ==
    IF 2 * pos <= Len(heap)
    THEN siftup_loop([heap EXCEPT ![pos] = heap[smaller_child(heap, pos)]],
                     startpos, smaller_child(heap, pos), newitem)
    ELSE siftdown([heap EXCEPT ![pos] = newitem], startpos, pos)

siftup(heap, pos) == siftup_loop(heap, pos, pos, heap[pos])

RECURSIVE heapify_loop(_, _)
heapify_loop(x, i) ==
    IF i >= 1 THEN heapify_loop(siftup(x, i), i - 1) ELSE x

heapify(x) == heapify_loop(x, Len(x) \div 2)

heappush(heap, item) == siftdown(Append(heap, item), 1, Len(heap) + 1)

\* heappop of a non-empty heap: the entry returned, and the heap left
heappop_item(heap) == heap[1]

heappop_heap(heap) ==
    IF Len(heap) = 1
    THEN << >>
    ELSE siftup([SubSeq(heap, 1, Len(heap) - 1) EXCEPT ![1] = heap[Len(heap)]], 1)

----------------------------------------------------------------------------
(* PrioFuncHeap, with the prio_func resolve_transfers gives both heaps *)

\* a slip: the sign is lost, and the smallest amount comes first
prio_func_smallest_first(item) == item[1]

\* lines 83 and 90: prio_func=lambda rec: -1 * rec[0]
prio_func(item) == -1 * item[1]

PrioFuncHeap(data) ==
    heapify([i \in 1..Len(data) |-> <<prio_func(data[i]), data[i]>>])

push(data, item) == heappush(data, <<prio_func(item), item>>)

pop_item(data) == heappop_item(data)[2]

pop_data(data) == heappop_heap(data)

\* line 58: heapq.heappop raises IndexError on an empty list
pop_raises(data) == Len(data) = 0

\* line 65: while len(self.data) > 0
iter_cond(data) == Len(data) > 0

\* list(heap): __iter__ pops until the heap is empty
RECURSIVE drain(_)
drain(data) ==
    IF iter_cond(data) THEN <<pop_item(data)>> \o drain(pop_data(data)) ELSE << >>

\* list(heap) ends in the IndexError of a pop
RECURSIVE drain_raises(_)
drain_raises(data) ==
    IF iter_cond(data)
    THEN pop_raises(data) \/ drain_raises(pop_data(data))
    ELSE FALSE

----------------------------------------------------------------------------
(* dict *)

\* dict.get(key, default)
get(dict, key, default) ==
    IF \E i \in DOMAIN dict : dict[i][1] = key
    THEN dict[CHOOSE i \in DOMAIN dict : dict[i][1] = key][2]
    ELSE default

\* dict[key] = value: a key the dict holds keeps its place, a new one goes last
setitem(dict, key, value) ==
    IF \E i \in DOMAIN dict : dict[i][1] = key
    THEN [i \in DOMAIN dict |-> IF dict[i][1] = key THEN <<key, value>> ELSE dict[i]]
    ELSE Append(dict, <<key, value>>)

----------------------------------------------------------------------------
(* calculate_balances *)

\* a slip: half a cent is rounded up, as ROUND_HALF_UP would on debts
quantize_half_up(num, den) ==
    IF 2 * (num % den) < den THEN num \div den ELSE (num \div den) + 1

\* Decimal.quantize(Decimal("0.01")) of num/den cents (den > 0), rounding half
\* to even, the default of the decimal context
quantize(num, den) ==
    LET q == num \div den
        r == num % den
    IN IF 2 * r < den THEN q
       ELSE IF 2 * r > den THEN q + 1
       ELSE IF q % 2 = 0 THEN q ELSE q + 1

\* a slip: the sponsor is not counted among the people who share the amount
all_people_without_sponsor(sponsor, debtors) == debtors

\* line 136
all_people(sponsor, debtors) == <<sponsor>> \o debtors

\* lines 139-140: sponsor gets credited with amount paid
credit_sponsor(dict, sponsor, amount) ==
    setitem(dict, sponsor, get(dict, sponsor, 0) + amount)

\* a slip: the person's previous balance is dropped
charge_forgets_balance(dict, person, amount, n) ==
    setitem(dict, person, quantize(0 * n - amount, n))

\* lines 143, 145-147: the person is charged owed = amount / n, and the new
\* balance is rounded to full cents
charge(dict, person, amount, n) ==
    setitem(dict, person, quantize(get(dict, person, 0) * n - amount, n))

\* line 144: everyone involved in the transaction gets charged
RECURSIVE charge_all(_, _, _, _)
charge_all(dict, people, amount, n) ==
    IF people = << >> THEN dict
    ELSE charge_all(charge(dict, Head(people), amount, n), Tail(people), amount, n)

\* lines 133-147: the loop body, for one record
process_record(dict, r) ==
    charge_all(credit_sponsor(dict, r.sponsor, r.amount),
               all_people(r.sponsor, r.debtors),
               r.amount,
               Len(all_people(r.sponsor, r.debtors)))

PeopleRecords == 1..NumPeopleRecords

\* the valid records: a sponsor, a list of debtors (who may repeat and may
\* include the sponsor) and a non-negative amount in cents
Records(maxslots) ==
    [sponsor : PeopleRecords,
     debtors : UNION {[1..k -> PeopleRecords] : k \in 0..(maxslots - 1)},
     amount : 0..MaxAmount]

\* lines 132-147: one iteration of the loop over the records
calc_record ==
    /\ pc = "calc"
    /\ slots < MaxSlots
    /\ \E r \in Records(MaxSlots - slots) :
          /\ rec' = r
          /\ slots' = slots + 1 + Len(r.debtors)
          /\ balances' = process_record(balances, r)
    /\ UNCHANGED <<pc, credit_heap, debt_heap, transactions,
                   unbalanced_debt, unbalanced_credit, heap_vars>>

\* line 148, and main's call of resolve_transfers on the balances (lines 176-182)
calc_return ==
    /\ pc = "calc"
    /\ pc' = "resolve"
    /\ UNCHANGED <<rec, slots, balances, credit_heap, debt_heap, transactions,
                   unbalanced_debt, unbalanced_credit, heap_vars>>

----------------------------------------------------------------------------
(* resolve_transfers *)

\* a slip: balance >= 0 in place of balance > 0
RECURSIVE credit_recs_nonnegative(_)
credit_recs_nonnegative(items) ==
    IF items = << >> THEN << >>
    ELSE (IF Head(items)[2] >= 0
          THEN << <<Head(items)[2], Head(items)[1]>> >> ELSE << >>)
         \o credit_recs_nonnegative(Tail(items))

\* line 79: [(balance, person) for person, balance in balances.items() if balance > 0]
RECURSIVE credit_recs(_)
credit_recs(items) ==
    IF items = << >> THEN << >>
    ELSE (IF Head(items)[2] > 0
          THEN << <<Head(items)[2], Head(items)[1]>> >> ELSE << >>)
         \o credit_recs(Tail(items))

\* a slip: balance <= 0 in place of balance < 0
RECURSIVE debt_recs_nonpositive(_)
debt_recs_nonpositive(items) ==
    IF items = << >> THEN << >>
    ELSE (IF Head(items)[2] <= 0
          THEN << <<-1 * Head(items)[2], Head(items)[1]>> >> ELSE << >>)
         \o debt_recs_nonpositive(Tail(items))

\* a slip: the debts keep their sign
RECURSIVE debt_recs_signed(_)
debt_recs_signed(items) ==
    IF items = << >> THEN << >>
    ELSE (IF Head(items)[2] < 0
          THEN << <<Head(items)[2], Head(items)[1]>> >> ELSE << >>)
         \o debt_recs_signed(Tail(items))

\* line 86: [(-1 * balance, person) for person, balance in balances.items() if balance < 0]
RECURSIVE debt_recs(_)
debt_recs(items) ==
    IF items = << >> THEN << >>
    ELSE (IF Head(items)[2] < 0
          THEN << <<-1 * Head(items)[2], Head(items)[1]>> >> ELSE << >>)
         \o debt_recs(Tail(items))

Min(a, b) == IF b < a THEN b ELSE a

\* a slip: the whole debt is transferred, whatever the creditor is owed
transaction_amount_debt(debt, credit) == debt

\* a slip: only half of what can be settled is transferred
transaction_amount_half(debt, credit) == (Min(debt, credit) + 1) \div 2

\* line 98: don't transfer more than debtor owes/creditor is owed
transaction_amount(debt, credit) == Min(debt, credit)

\* lines 94-101: the transaction the iteration emits
iter_transaction(credit_data, debt_data) ==
    [sender |-> pop_item(debt_data)[2],
     receiver |-> pop_item(credit_data)[2],
     amount |-> transaction_amount(pop_item(debt_data)[1], pop_item(credit_data)[1])]

\* a slip: a last cent left over is not put back
repush_above_one(data, remaining, person) ==
    IF remaining > 1 THEN push(data, <<remaining, person>>) ELSE data

\* lines 104-106 and 109-111: what is left of a popped entry goes back on its heap
repush(data, remaining, person) ==
    IF remaining > 0 THEN push(data, <<remaining, person>>) ELSE data

\* a slip: the popped entry goes back as it was, not what remains of it
iter_credit_keeps_credit(credit_data, debt_data) ==
    IF pop_item(credit_data)[1]
           > transaction_amount(pop_item(debt_data)[1], pop_item(credit_data)[1])
    THEN push(pop_data(credit_data), pop_item(credit_data))
    ELSE pop_data(credit_data)

\* lines 95, 103-106: the credit heap after the iteration
iter_credit(credit_data, debt_data) ==
    repush(pop_data(credit_data),
           pop_item(credit_data)[1]
               - transaction_amount(pop_item(debt_data)[1], pop_item(credit_data)[1]),
           pop_item(credit_data)[2])

\* lines 94, 108-111: the debt heap after the iteration
iter_debt(credit_data, debt_data) ==
    repush(pop_data(debt_data),
           pop_item(debt_data)[1]
               - transaction_amount(pop_item(debt_data)[1], pop_item(credit_data)[1]),
           pop_item(debt_data)[2])

\* a slip: or in place of and
loop_cond_either(credit_data, debt_data) == Len(credit_data) > 0 \/ Len(debt_data) > 0

\* a slip: the loop stops with one creditor left
loop_cond_off_by_one(credit_data, debt_data) ==
    Len(credit_data) > 1 /\ Len(debt_data) > 0

\* line 93: the loop condition
loop_cond(credit_data, debt_data) == Len(credit_data) > 0 /\ Len(debt_data) > 0

\* lines 79-92: split the balances and build the two heaps
resolve_start ==
    /\ pc = "resolve"
    /\ credit_heap' = PrioFuncHeap(credit_recs(balances))
    /\ debt_heap' = PrioFuncHeap(debt_recs(balances))
    /\ transactions' = << >>
    /\ pc' = "loop"
    /\ UNCHANGED <<rec, slots, balances, unbalanced_debt, unbalanced_credit,
                   heap_vars>>

\* a slip: the transaction is booked on the balances handed in
resolve_iter_in_place ==
    /\ pc = "loop"
    /\ loop_cond(credit_heap, debt_heap)
    /\ transactions' = Append(transactions, iter_transaction(credit_heap, debt_heap))
    /\ credit_heap' = iter_credit(credit_heap, debt_heap)
    /\ debt_heap' = iter_debt(credit_heap, debt_heap)
    /\ balances' =
          LET t == iter_transaction(credit_heap, debt_heap)
              paid == setitem(balances, t.sender, get(balances, t.sender, 0) + t.amount)
          IN setitem(paid, t.receiver, get(paid, t.receiver, 0) - t.amount)
    /\ UNCHANGED <<pc, rec, slots, unbalanced_debt, unbalanced_credit, heap_vars>>

\* lines 93-111: one iteration of the matching loop
resolve_iter ==
    /\ pc = "loop"
    /\ loop_cond(credit_heap, debt_heap)
    /\ IF pop_raises(debt_heap)
       THEN \* line 94 raises
            /\ pc' = "IndexError"
            /\ UNCHANGED <<credit_heap, debt_heap, transactions>>
       ELSE IF pop_raises(credit_heap)
       THEN \* line 95 raises, the debtor already popped
            /\ pc' = "IndexError"
            /\ debt_heap' = pop_data(debt_heap)
            /\ UNCHANGED <<credit_heap, transactions>>
       ELSE /\ transactions' =
                  Append(transactions, iter_transaction(credit_heap, debt_heap))
            /\ credit_heap' = iter_credit(credit_heap, debt_heap)
            /\ debt_heap' = iter_debt(credit_heap, debt_heap)
            /\ UNCHANGED pc
    /\ UNCHANGED <<rec, slots, balances, unbalanced_debt, unbalanced_credit,
                   heap_vars>>

\* lines 113-115: drain both heaps into the residual lists and return
resolve_return ==
    /\ pc = "loop"
    /\ ~loop_cond(credit_heap, debt_heap)
    /\ IF drain_raises(debt_heap) \/ drain_raises(credit_heap)
       THEN /\ pc' = "IndexError"
            /\ UNCHANGED <<credit_heap, debt_heap, unbalanced_debt,
                           unbalanced_credit>>
       ELSE /\ unbalanced_debt' = drain(debt_heap)
            /\ unbalanced_credit' = drain(credit_heap)
            /\ debt_heap' = << >>
            /\ credit_heap' = << >>
            /\ pc' = "done"
    /\ UNCHANGED <<rec, slots, balances, transactions, heap_vars>>

\* lines 92-115 run to the end: <<transactions, unbalanced_debt, unbalanced_credit>>
RECURSIVE resolve_loop(_, _, _)
resolve_loop(credit_data, debt_data, txs) ==
    IF loop_cond(credit_data, debt_data)
    THEN resolve_loop(iter_credit(credit_data, debt_data),
                      iter_debt(credit_data, debt_data),
                      Append(txs, iter_transaction(credit_data, debt_data)))
    ELSE <<txs, drain(debt_data), drain(credit_data)>>

\* the value resolve_transfers returns for a dict
resolve_transfers(dict) ==
    resolve_loop(PrioFuncHeap(credit_recs(dict)), PrioFuncHeap(debt_recs(dict)), << >>)

----------------------------------------------------------------------------
(* Spec: resolve_transfers on every balance map over People *)

Bal == (-MaxBal)..MaxBal

\* the ways to enumerate k distinct people: the key orders of a dict of k entries
KeyOrders(k) ==
    {o \in [1..k -> People] : \A i, j \in 1..k : i # j => o[i] # o[j]}

NoRecord == [sponsor |-> 0, debtors |-> << >>, amount |-> 0]

Empty ==
    /\ rec = NoRecord
    /\ slots = 0
    /\ credit_heap = << >>
    /\ debt_heap = << >>
    /\ transactions = << >>
    /\ unbalanced_debt = << >>
    /\ unbalanced_credit = << >>

\* no PrioFuncHeap is used on its own
NoHeap ==
    /\ heap_data = << >>
    /\ heap_init = 0
    /\ heap_log = << >>
    /\ heap_ret = << >>

Init ==
    /\ pc = "resolve"
    /\ \E k \in 0..NumPeople : \E o \in KeyOrders(k) : \E b \in [1..k -> Bal] :
          balances = [i \in 1..k |-> <<o[i], b[i]>>]
    /\ Empty
    /\ NoHeap

Next ==
    \/ resolve_start
    \/ resolve_iter
    \/ resolve_return

Spec == Init /\ [][Next]_vars

----------------------------------------------------------------------------
(* SpecZeroSum: resolve_transfers on the balance maps that sum to zero, over *)
(* more people, with the keys in the order of the people                    *)

PeopleZeroSum == 1..NumPeopleZeroSum

BalZeroSum == (-MaxBalZeroSum)..MaxBalZeroSum

RECURSIVE SumTo(_, _)
SumTo(f, n) == IF n = 0 THEN 0 ELSE f[n] + SumTo(f, n - 1)

InitZeroSum ==
    /\ pc = "resolve"
    /\ \E b \in [1..(NumPeopleZeroSum - 1) -> BalZeroSum] :
          /\ -SumTo(b, NumPeopleZeroSum - 1) \in BalZeroSum
          /\ balances = [i \in PeopleZeroSum |->
                            <<i, IF i < NumPeopleZeroSum THEN b[i]
                                 ELSE -SumTo(b, NumPeopleZeroSum - 1)>>]
    /\ Empty
    /\ NoHeap

SpecZeroSum == InitZeroSum /\ [][Next]_vars

----------------------------------------------------------------------------
(* SpecRecords: main() on every list of valid records within the bounds:    *)
(* calculate_balances, then resolve_transfers on the balances it returns    *)

InitRecords ==
    /\ pc = "calc"
    /\ balances = << >>
    /\ Empty
    /\ NoHeap

NextRecords ==
    \/ calc_record
    \/ calc_return
    \/ resolve_start
    \/ resolve_iter
    \/ resolve_return

SpecRecords == InitRecords /\ [][NextRecords]_vars

----------------------------------------------------------------------------
(* SpecInput: calculate_balances on records that may lack a field or carry  *)
(* a negative amount                                                        *)

\* a slip: a negative amount is taken for a missing one
missing_key_or_negative(r) ==
    \/ \E f \in {"sponsor", "debtors", "amount"} : f \notin DOMAIN r
    \/ r.amount < 0

\* lines 133-135: rec["sponsor"], rec["debtors"], rec["amount"] raise KeyError
\* for a key the record does not hold; nothing else is asked of the record
missing_key(r) == \E f \in {"sponsor", "debtors", "amount"} : f \notin DOMAIN r

\* the records with all three fields, the amount of either sign
SignedRecords(maxslots) ==
    [sponsor : PeopleRecords,
     debtors : UNION {[1..k -> PeopleRecords] : k \in 0..(maxslots - 1)},
     amount : (-MaxAmount)..MaxAmount]

\* the record r without its field f
Without(r, f) == [g \in DOMAIN r \ {f} |-> r[g]]

\* records that lack one field
IncompleteRecords ==
    {Without(r, f) : r \in [sponsor : PeopleRecords, debtors : {<< >>}, amount : {MaxAmount}],
                     f \in {"sponsor", "debtors", "amount"}}

\* the records read: the complete ones, and records that lack one field
InputRecords(maxslots) == SignedRecords(maxslots) \cup IncompleteRecords

\* lines 132-147: one iteration of the loop over the records, on any record;
\* calc_record is this action on the valid records
calc_input ==
    /\ pc = "calc"
    /\ slots < MaxSlotsInput
    /\ \E r \in InputRecords(MaxSlotsInput - slots) :
          /\ rec' = r
          /\ IF missing_key(r)
             THEN /\ pc' = "KeyError"
                  /\ UNCHANGED <<slots, balances>>
             ELSE /\ slots' = slots + 1 + Len(r.debtors)
                  /\ balances' = process_record(balances, r)
                  /\ UNCHANGED pc
    /\ UNCHANGED <<credit_heap, debt_heap, transactions,
                   unbalanced_debt, unbalanced_credit, heap_vars>>

NextInput ==
    \/ calc_input
    \/ calc_return

SpecInput == InitRecords /\ [][NextInput]_vars

----------------------------------------------------------------------------
(* SpecHeap: a PrioFuncHeap built from any items, then any calls of push,   *)
(* pop and list() on it                                                     *)

\* the (amount, person) items put on the heap
HeapItems == (1..MaxHeapAmount) \X {1, 2}

\* lines 37-43: PrioFuncHeap(items, prio_func)
InitHeap ==
    /\ pc = "heap"
    /\ balances = << >>
    /\ Empty
    /\ \E k \in 0..MaxHeapInit : \E items \in [1..k -> HeapItems] :
          /\ heap_data = PrioFuncHeap(items)
          /\ heap_init = k
    /\ heap_log = << >>
    /\ heap_ret = << >>

\* lines 45-51: heap.push(item)
heap_push ==
    /\ pc = "heap"
    /\ Len(heap_log) < MaxHeapCalls
    /\ \E item \in HeapItems : heap_data' = push(heap_data, item)
    /\ heap_log' = Append(heap_log, "push")
    /\ heap_ret' = << >>
    /\ UNCHANGED <<pc, rec, slots, balances, credit_heap, debt_heap, transactions,
                   unbalanced_debt, unbalanced_credit, heap_init>>

\* lines 53-59: heap.pop()
heap_pop ==
    /\ pc = "heap"
    /\ Len(heap_log) < MaxHeapCalls
    /\ heap_log' = Append(heap_log, "pop")
    /\ IF pop_raises(heap_data)
       THEN /\ pc' = "IndexError"
            /\ UNCHANGED <<heap_data, heap_ret>>
       ELSE /\ heap_ret' = <<pop_item(heap_data)>>
            /\ heap_data' = pop_data(heap_data)
            /\ UNCHANGED pc
    /\ UNCHANGED <<rec, slots, balances, credit_heap, debt_heap, transactions,
                   unbalanced_debt, unbalanced_credit, heap_init>>

\* lines 64-66: list(heap), the draining iteration
heap_iter ==
    /\ pc = "heap"
    /\ heap_log' = Append(heap_log, "iter")
    /\ IF drain_raises(heap_data)
       THEN /\ pc' = "IndexError"
            /\ UNCHANGED <<heap_data, heap_ret>>
       ELSE /\ heap_ret' = drain(heap_data)
            /\ heap_data' = << >>
            /\ pc' = "drained"
    /\ UNCHANGED <<rec, slots, balances, credit_heap, debt_heap, transactions,
                   unbalanced_debt, unbalanced_credit, heap_init>>

NextHeap ==
    \/ heap_push
    \/ heap_pop
    \/ heap_iter

SpecHeap == InitHeap /\ [][NextHeap]_vars

----------------------------------------------------------------------------
(* What the claims speak of *)

\* a person's starting balance: the balance resolve_transfers is given
StartBalance(person) == get(balances, person, 0)

RECURSIVE SumBalances(_)
SumBalances(dict) ==
    IF dict = << >> THEN 0 ELSE Head(dict)[2] + SumBalances(Tail(dict))

\* the sum of the amounts of a list of (amount, person) entries
RECURSIVE SumEntries(_)
SumEntries(list) ==
    IF list = << >> THEN 0 ELSE Head(list)[1] + SumEntries(Tail(list))

RECURSIVE SumTransactions(_)
SumTransactions(txs) ==
    IF txs = << >> THEN 0 ELSE Head(txs).amount + SumTransactions(Tail(txs))

\* the number of people with a nonzero starting balance
NonzeroCount == Cardinality({i \in DOMAIN balances : balances[i][2] # 0})

HasZeroBalance == \E i \in DOMAIN balances : balances[i][2] = 0

Abs(x) == IF x < 0 THEN -x ELSE x

\* the same dict with its entries enumerated in the order q
Reordered(dict, q) == [i \in DOMAIN dict |-> dict[q[i]]]

----------------------------------------------------------------------------
(* Claims about resolve_transfers on every balance map (Spec) *)

\* C1: every transaction emitted has a sender whose starting balance is
\* strictly negative and a receiver whose starting balance is strictly
\* positive, so nobody with a non-negative balance sends and nobody with a
\* non-positive balance receives.
C1_SenderOwesReceiverIsOwed ==
    \A i \in DOMAIN transactions :
        /\ StartBalance(transactions[i].sender) < 0
        /\ StartBalance(transactions[i].receiver) > 0

C1_Witness ==
    /\ pc = "done"
    /\ Len(transactions) >= 2

\* C2 as stated: the number of transactions returned is at most (number of
\* people with a nonzero starting balance) - 1.  It fails on a map in which
\* nobody has a nonzero balance: no transaction is more than -1.
C2_AtMostNonzeroMinusOne ==
    pc = "done" => Len(transactions) <= NonzeroCount - 1

\* C2 as amended: the number of transactions is at most (number of people
\* with a nonzero starting balance) - 1 when somebody has a nonzero balance,
\* and zero when nobody has.
C2_AtMostNonzeroMinusOneOrNone ==
    Len(transactions) <= (IF NonzeroCount = 0 THEN 0 ELSE NonzeroCount - 1)

C2_Witness ==
    /\ pc = "done"
    /\ NonzeroCount = NumPeople
    /\ Len(transactions) = NonzeroCount - 1

\* C4: when the balances do not sum to zero the residual is not empty, its
\* magnitudes sum to exactly the absolute value of the sum of the balances,
\* and it lies on the creditor side when the sum is positive and on the
\* debtor side when it is negative; when the balances sum to zero the
\* residual is empty.
C4_ResidualIsTheImbalance ==
    pc = "done" =>
        /\ SumBalances(balances) # 0 =>
              /\ Len(unbalanced_debt) + Len(unbalanced_credit) > 0
              /\ SumEntries(unbalanced_debt) + SumEntries(unbalanced_credit)
                     = Abs(SumBalances(balances))
        /\ SumBalances(balances) > 0 => unbalanced_debt = << >>
        /\ SumBalances(balances) < 0 => unbalanced_credit = << >>
        /\ SumBalances(balances) = 0 =>
              unbalanced_debt = << >> /\ unbalanced_credit = << >>

C4_Witness ==
    /\ pc = "done"
    /\ SumBalances(balances) < 0
    /\ Len(transactions) >= 1
    /\ Len(unbalanced_debt) >= 2

\* C7: the result is the same whatever the order in which the map's entries
\* are enumerated, also when several people have equal balances: run on the
\* same dict in any other key order, resolve_transfers returns the same
\* transactions in the same order and the same residual lists.
C7_SameResultInEveryKeyOrder ==
    pc = "done" =>
        \A q \in Permutations(DOMAIN balances) :
            resolve_transfers(Reordered(balances, q))
                = <<transactions, unbalanced_debt, unbalanced_credit>>

C7_Witness ==
    /\ pc = "done"
    /\ Len(transactions) >= 2
    /\ \E i, j \in DOMAIN balances :
          /\ i < j
          /\ balances[i][2] = balances[j][2]
          /\ balances[i][2] < 0
          /\ balances[i][1] > balances[j][1]

C10_AmountsPositive ==
    \A i \in DOMAIN transactions : transactions[i].amount > 0

C10_Witness ==
    /\ pc = "done"
    /\ HasZeroBalance
    /\ Len(transactions) >= 1
    /\ \E i \in DOMAIN balances : balances[i][2] > 0

----------------------------------------------------------------------------
(* Claims about resolve_transfers on balance maps that sum to zero          *)
(* (SpecZeroSum)                                                            *)

\* the starting balances, as a function of the person
StartBalances == [p \in {balances[i][1] : i \in DOMAIN balances} |-> StartBalance(p)]

\* what the person has sent less what the person has received in txs
RECURSIVE NetSent(_, _)
NetSent(txs, person) ==
    IF txs = << >> THEN 0
    ELSE (IF Head(txs).sender = person THEN Head(txs).amount ELSE 0)
         - (IF Head(txs).receiver = person THEN Head(txs).amount ELSE 0)
         + NetSent(Tail(txs), person)

\* the transactions zero every balance
Settled ==
    \A i \in DOMAIN balances :
        balances[i][2] + NetSent(transactions, balances[i][1]) = 0

\* Some set of at most k transfers, each of a positive amount from a person
\* with a negative balance to a person with a positive balance, zeroes every
\* balance of b (which sums to zero).  Such a set never sends a debtor's
\* money past zero nor a creditor's, so it holds a transfer from the first
\* unsettled debtor of at most what the two still owe and are owed, and the
\* rest of it settles what that transfer leaves, with one transfer less.
RECURSIVE SettledWithin(_, _)
SettledWithin(b, k) ==
    IF k < 0 THEN FALSE
    ELSE IF \A p \in DOMAIN b : b[p] = 0 THEN TRUE
    ELSE IF k = 0 THEN FALSE
    ELSE LET d == CHOOSE p \in DOMAIN b : b[p] < 0
         IN \E c \in {p \in DOMAIN b : b[p] > 0} :
               \E a \in 1..Min(-b[d], b[c]) :
                   SettledWithin([b EXCEPT ![d] = @ + a, ![c] = @ - a], k - 1)

----------------------------------------------------------------------------
(* Claims about calculate_balances and resolve_transfers on the balances it *)
(* returns (SpecRecords)                                                    *)

\* the sum of the positive balances, and minus the sum of the negative ones
RECURSIVE SumPositive(_)
SumPositive(dict) ==
    IF dict = << >> THEN 0
    ELSE (IF Head(dict)[2] > 0 THEN Head(dict)[2] ELSE 0) + SumPositive(Tail(dict))

RECURSIVE SumNegative(_)
SumNegative(dict) ==
    IF dict = << >> THEN 0
    ELSE (IF Head(dict)[2] < 0 THEN -Head(dict)[2] ELSE 0) + SumNegative(Tail(dict))

\* the residual summed with its sign: what is still owed counts positive,
\* what somebody still owes negative
SignedResidual == SumEntries(unbalanced_credit) - SumEntries(unbalanced_debt)

\* the records read so far are one record, rec: it holds all the slots
SingleRecord == slots = 1 + Len(rec.debtors)

SeveralRecords == slots > 1 + Len(rec.debtors)

\* C3: with balances = calculate_balances(records) and the result of
\* resolve_transfers(balances), the transaction amounts plus the signed sum
\* of the residual equal the sum of the positive balances, which equals minus
\* the sum of the negative balances, each up to one cent for every
\* participant slot of the records.
C3_Conservation ==
    pc = "done" =>
        /\ Abs(SumTransactions(transactions) + SignedResidual - SumPositive(balances))
               <= slots
        /\ Abs(SumPositive(balances) - SumNegative(balances)) <= slots

C3_Witness ==
    /\ pc = "done"
    /\ SeveralRecords
    /\ Len(transactions) >= 2
    /\ Len(unbalanced_debt) >= 1
    /\ SumTransactions(transactions) + SignedResidual # SumPositive(balances)

\* C5: the absolute value of the sum of the balances calculate_balances
\* returns is at most one cent for every participant slot of the records, a
\* record holding 1 + len(debtors) slots.
C5_SumWithinTolerance ==
    pc # "calc" => Abs(SumBalances(balances)) <= slots

C5_Witness ==
    /\ pc = "resolve"
    /\ SeveralRecords
    /\ SumBalances(balances) # 0
    /\ slots = MaxSlots

\* the shape C8 speaks of: at least one debtor, the debtors distinct, none of
\* them the sponsor, and an amount of k+1 equal whole-cent shares
EqualShares ==
    /\ SingleRecord
    /\ Len(rec.debtors) >= 1
    /\ \A i, j \in DOMAIN rec.debtors : i # j => rec.debtors[i] # rec.debtors[j]
    /\ \A i \in DOMAIN rec.debtors : rec.debtors[i] # rec.sponsor
    /\ rec.amount % (Len(rec.debtors) + 1) = 0

Share == rec.amount \div (Len(rec.debtors) + 1)

\* the result C8 states: the sponsor at +k shares, each debtor at -share, one
\* transaction of share from each debtor to the sponsor, nothing left over
EqualSharesSettled ==
    /\ Len(balances) = Len(rec.debtors) + 1
    /\ {balances[i] : i \in DOMAIN balances}
           = {<<rec.sponsor, Len(rec.debtors) * Share>>}
               \cup {<<rec.debtors[i], -Share>> : i \in DOMAIN rec.debtors}
    /\ Len(transactions) = Len(rec.debtors)
    /\ {transactions[i] : i \in DOMAIN transactions}
           = {[sender |-> rec.debtors[i], receiver |-> rec.sponsor, amount |-> Share] :
                 i \in DOMAIN rec.debtors}
    /\ unbalanced_debt = << >>
    /\ unbalanced_credit = << >>

\* C8 as stated: for a single record with sponsor S, k >= 1 distinct debtors
\* none of whom is S, and an amount of k+1 equal whole-cent shares, the
\* balances are S: +k shares and each debtor: -share, and resolve_transfers
\* yields exactly k transactions, one of share from each debtor to S, and an
\* empty residual.  It fails for the amount 0.00: nobody owes, and no
\* transaction is emitted.
C8_EqualSharesSettled ==
    (pc = "done" /\ EqualShares) => EqualSharesSettled

\* C8 as amended: the same, for an amount greater than zero.
C8_PositiveEqualSharesSettled ==
    (pc = "done" /\ EqualShares /\ rec.amount > 0) => EqualSharesSettled

C8_Witness ==
    /\ pc = "done"
    /\ EqualShares
    /\ Len(rec.debtors) = 2
    /\ Share = 2

----------------------------------------------------------------------------
(* The container on its own *)

\* how often a list holds an item, the heap entries taken by their items
RECURSIVE Count(_, _)
Count(list, x) ==
    IF list = << >> THEN 0
    ELSE (IF Head(list) = x THEN 1 ELSE 0) + Count(Tail(list), x)

\* the items a heap holds, in the order of its list
ItemsOf(data) == [i \in DOMAIN data |-> data[i][2]]

\* list holds what was holds, but for one x less
OneLess(list, was, x) ==
    \A y \in {list[i] : i \in DOMAIN list} \cup {was[i] : i \in DOMAIN was} :
        Count(list, y) = Count(was, y) - (IF y = x THEN 1 ELSE 0)

\* the step is a call of pop that returns
PopReturns == heap_log' = Append(heap_log, "pop") /\ pc' = "heap"

\* the step is a list(heap) that returns
IterReturns == heap_log' = Append(heap_log, "iter") /\ pc' = "drained"

----------------------------------------------------------------------------
(* Records that are not valid *)

\* the record has its three fields
Complete(r) == DOMAIN r = {"sponsor", "debtors", "amount"}

\* calculate_balances has ended in an exception
Failed == pc \in {"KeyError", "ValidationError"}

----------------------------------------------------------------------------
(* The matching loop, step by step *)

\* the step is an iteration of the loop of resolve_transfers
IterStep == pc = "loop" /\ pc' = "loop" /\ vars' # vars

\* the heap holds person with amount, and nobody with more
LargestIn(data, person, amount) ==
    /\ \E i \in DOMAIN data : data[i][2] = <<amount, person>>
    /\ \A i \in DOMAIN data : data[i][2][1] <= amount

\* C13: every iteration of the loop takes a debtor whose remaining debt is the
\* largest on the debt heap and a creditor whose remaining credit is the
\* largest on the credit heap, and the transaction it emits goes from that
\* debtor to that creditor, for exactly min(debt, credit).
C13_LargestDebtorPaysLargestCreditor ==
    [][IterStep =>
          /\ Len(transactions') = Len(transactions) + 1
          /\ SubSeq(transactions', 1, Len(transactions)) = transactions
          /\ LET t == transactions'[Len(transactions')]
             IN \E d \in {debt_heap[i][2][1] : i \in DOMAIN debt_heap} :
                \E c \in {credit_heap[i][2][1] : i \in DOMAIN credit_heap} :
                   /\ LargestIn(debt_heap, t.sender, d)
                   /\ LargestIn(credit_heap, t.receiver, c)
                   /\ t.amount = Min(d, c)]_vars

\* the first sender was picked among two debtors, the other one owing less
C13_Witness ==
    /\ pc = "done"
    /\ Len(transactions) >= 2
    /\ \E i \in DOMAIN balances :
          /\ balances[i][2] < 0
          /\ balances[i][1] # transactions[1].sender
          /\ balances[i][2] > StartBalance(transactions[1].sender)

\* the entries on the two heaps
Entries == Len(credit_heap) + Len(debt_heap)

\* C14: resolve_transfers terminates for every balance map: every iteration
\* of the loop puts back at most one of the two entries it popped, so the
\* number of entries on the two heaps goes down with every iteration; and
\* every step leaves the function in its loop or returned, never in an
\* exception.  The number of entries cannot go below zero, so the loop is left
\* after at most as many iterations as the heaps had entries.
C14_EntriesDecreaseAndReturns ==
    [][/\ IterStep => Entries - 2 <= Entries' /\ Entries' < Entries
       /\ pc' \in {"loop", "done"}
       /\ pc' = "done" <=> (pc = "loop" /\ ~loop_cond(credit_heap, debt_heap))]_vars

\* a run of two iterations has returned
C14_Witness ==
    /\ pc = "done"
    /\ Len(transactions) = 2
    /\ Len(unbalanced_debt) + Len(unbalanced_credit) = 1

\* C15: pop is never called on an empty container, neither in the loop of
\* resolve_transfers nor while the two heaps are drained: where the loop is
\* about to pop, both heaps hold an entry; where the heaps are about to be
\* drained, no pop of the draining raises; and no run ends in the IndexError
\* of an empty pop.
C15_NoPopOnEmpty ==
    /\ pc # "IndexError"
    /\ (pc = "loop" /\ loop_cond(credit_heap, debt_heap)) =>
           ~pop_raises(debt_heap) /\ ~pop_raises(credit_heap)
    /\ (pc = "loop" /\ ~loop_cond(credit_heap, debt_heap)) =>
           ~drain_raises(debt_heap) /\ ~drain_raises(credit_heap)

\* the loop has popped, and the draining has popped twice from one heap
C15_Witness ==
    /\ pc = "done"
    /\ Len(transactions) >= 1
    /\ Len(unbalanced_debt) = 2

----------------------------------------------------------------------------
(* One record of calculate_balances *)

\* the step is an iteration of the loop of calculate_balances, on the record rec'
RecordStep == pc = "calc" /\ pc' = "calc" /\ slots' # slots

\* amount / n rounded to full cents, half to even: the nearest whole number of
\* cents, the even one of the two when both are as near
RoundedShare(amount, n) ==
    CHOOSE s \in 0..amount :
        \/ 2 * Abs(n * s - amount) < n
        \/ 2 * Abs(n * s - amount) = n /\ s % 2 = 0

\* amount / n ends in exactly half a cent
HalfCent(amount, n) == 2 * (amount % n) = n

\* what the sponsor is credited, and nobody else
Credit(r, person) == IF person = r.sponsor THEN r.amount ELSE 0

\* how often the person stands in [sponsor] + debtors
Occurrences(r, person) == Count(<<r.sponsor>> \o r.debtors, person)

\* what the step has taken from the person, the credit set apart
Debited(r, person) ==
    get(balances, person, 0) + Credit(r, person) - get(balances', person, 0)

\* C16 as stated: processing one record adds the amount to the sponsor's
\* balance and, for each occurrence of a person in [sponsor] + debtors,
\* decreases that person's balance by share = amount / len([sponsor] + debtors)
\* rounded to 2 decimals, half to even; no other balance changes.  It fails
\* where the share ends in half a cent: the code rounds the balance after the
\* exact share is taken off, not the share.
C16_DebitsTheRoundedShare ==
    [][RecordStep =>
          \A person \in PeopleRecords :
             Debited(rec', person)
                 = Occurrences(rec', person)
                       * RoundedShare(rec'.amount, 1 + Len(rec'.debtors))]_vars

\* C16 as amended: processing one record adds the amount to the sponsor's
\* balance and, for each occurrence of a person in [sponsor] + debtors, takes
\* the exact share amount / len([sponsor] + debtors) off that person's balance
\* and rounds the balance to 2 decimals, half to even; no other balance
\* changes.  Unless the share ends in exactly half a cent, each debit is the
\* share rounded half to even; if it does, each debit is the share rounded
\* down or rounded up, and it leaves the balance at an even number of cents.
C16_DebitsTheShareAndRoundsTheBalance ==
    [][RecordStep =>
          LET n == 1 + Len(rec'.debtors)
          IN \A person \in PeopleRecords :
                IF HalfCent(rec'.amount, n)
                THEN /\ Occurrences(rec', person) * (rec'.amount \div n)
                            <= Debited(rec', person)
                     /\ Debited(rec', person)
                            <= Occurrences(rec', person) * ((rec'.amount \div n) + 1)
                     /\ Occurrences(rec', person) > 0 =>
                            get(balances', person, 0) % 2 = 0
                ELSE Debited(rec', person)
                         = Occurrences(rec', person) * RoundedShare(rec'.amount, n)]_vars

\* 0.03 paid for two: the share of 0.015 rounds to 0.02, and the sponsor is
\* left with 0.02, not with 0.01
C16_Witness ==
    /\ pc = "calc"
    /\ SingleRecord
    /\ rec.amount = 3
    /\ Len(rec.debtors) = 1
    /\ rec.debtors[1] # rec.sponsor
    /\ get(balances, rec.sponsor, 0) = 2
    /\ get(balances, rec.debtors[1], 0) = -2

----------------------------------------------------------------------------
(* What resolve_transfers leaves alone *)

\* C17: resolve_transfers leaves the balance map it is given unchanged: no
\* step from its call to its return changes the map, neither its keys and
\* their order nor a balance.
C17_BalancesUnchanged ==
    [][(pc = "resolve" \/ pc = "loop") => (balances' = balances)]_vars

\* three people are settled by two transactions, and the map still holds
\* their three balances, which sum to zero and of which none is zero
C17_Witness ==
    /\ pc = "done"
    /\ Len(transactions) = 2
    /\ Len(balances) = 3
    /\ \A i \in DOMAIN balances : balances[i][2] # 0
    /\ SumBalances(balances) = 0

----------------------------------------------------------------------------
(* The accounts of the loop *)

\* the amounts a list of (amount, person) entries holds for the person
RECURSIVE AmountOf(_, _)
AmountOf(list, person) ==
    IF list = << >> THEN 0
    ELSE (IF Head(list)[2] = person THEN Head(list)[1] ELSE 0)
         + AmountOf(Tail(list), person)

\* the entries a list of (amount, person) entries holds for the person
TimesIn(list, person) == Cardinality({i \in DOMAIN list : list[i][2] = person})

\* what is left of the person's debt: on the debt heap, or, once the heaps
\* are drained, on the list of unbalanced debt
DebtLeft(person) ==
    AmountOf(ItemsOf(debt_heap), person) + AmountOf(unbalanced_debt, person)

CreditLeft(person) ==
    AmountOf(ItemsOf(credit_heap), person) + AmountOf(unbalanced_credit, person)

\* the entries that stand for the person, wherever they are
TimesHeld(person) ==
    TimesIn(ItemsOf(debt_heap), person) + TimesIn(unbalanced_debt, person)
        + TimesIn(ItemsOf(credit_heap), person) + TimesIn(unbalanced_credit, person)

RECURSIVE SentBy(_, _)
SentBy(txs, person) ==
    IF txs = << >> THEN 0
    ELSE (IF Head(txs).sender = person THEN Head(txs).amount ELSE 0)
         + SentBy(Tail(txs), person)

RECURSIVE ReceivedBy(_, _)
ReceivedBy(txs, person) ==
    IF txs = << >> THEN 0
    ELSE (IF Head(txs).receiver = person THEN Head(txs).amount ELSE 0)
         + ReceivedBy(Tail(txs), person)

\* the entries of the heaps and of the residual lists
AllEntries ==
    {ItemsOf(debt_heap)[i] : i \in DOMAIN debt_heap}
        \cup {ItemsOf(credit_heap)[i] : i \in DOMAIN credit_heap}
        \cup {unbalanced_debt[i] : i \in DOMAIN unbalanced_debt}
        \cup {unbalanced_credit[i] : i \in DOMAIN unbalanced_credit}

\* C18: at every point of the loop and at its end, for every person: the
\* magnitude of the starting balance is what is left for the person in its
\* container (nothing, if the person is not there) plus the transactions
\* emitted so far with the person as sender, for a debtor, or as receiver, for
\* a creditor; so nobody has sent more than was owed or received more than was
\* due, a debtor receives nothing and a creditor sends nothing; and a person
\* stands at most once in the two containers.
C18_StartIsLeftPlusSettled ==
    (pc = "loop" \/ pc = "done") =>
        /\ \A e \in AllEntries :
              e[1] > 0 /\ \E i \in DOMAIN balances : balances[i][1] = e[2]
        /\ \A i \in DOMAIN balances :
              LET person == balances[i][1]
                  start == balances[i][2]
              IN /\ TimesHeld(person) <= 1
                 /\ start < 0 =>
                        /\ -start = DebtLeft(person) + SentBy(transactions, person)
                        /\ CreditLeft(person) = 0
                        /\ ReceivedBy(transactions, person) = 0
                 /\ start > 0 =>
                        /\ start = CreditLeft(person) + ReceivedBy(transactions, person)
                        /\ DebtLeft(person) = 0
                        /\ SentBy(transactions, person) = 0
                 /\ start = 0 =>
                        /\ TimesHeld(person) = 0
                        /\ SentBy(transactions, person) = 0
                        /\ ReceivedBy(transactions, person) = 0

\* in the middle of the loop: one transaction is out, the sender still owes
\* a part of the debt, and a creditor is waiting
C18_Witness ==
    /\ pc = "loop"
    /\ Len(transactions) = 1
    /\ loop_cond(credit_heap, debt_heap)
    /\ DebtLeft(transactions[1].sender) > 0
    /\ SentBy(transactions, transactions[1].sender) > 0

\* C19: the amounts of the transactions never go up in the order in which
\* they are emitted: each is at most the one before it.
C19_AmountsNonIncreasing ==
    \A i \in 1..(Len(transactions) - 1) :
        transactions[i + 1].amount <= transactions[i].amount

\* four transactions, the last smaller than the first
C19_Witness ==
    /\ pc = "done"
    /\ Len(transactions) = 4
    /\ transactions[4].amount < transactions[1].amount

\* C20: when resolve_transfers returns, at most one of the two residual lists
\* holds an entry, no person stands in more than one residual entry, and no
\* residual entry is of amount zero.
C20_OneResidualListNonzeroEntries ==
    pc = "done" =>
        /\ unbalanced_debt = << >> \/ unbalanced_credit = << >>
        /\ \A person \in {e[2] : e \in AllEntries} : TimesHeld(person) = 1
        /\ \A e \in AllEntries : e[1] # 0

\* one debtor has paid one of two creditors in part: both creditors are left
\* on the list of unbalanced credit
C20_Witness ==
    /\ pc = "done"
    /\ Len(transactions) = 1
    /\ unbalanced_debt = << >>
    /\ Len(unbalanced_credit) = 2

====
